---- MODULE Spec2Model ----
(***************************************************************************)
(* Model of the automated-mggg-qa check engine: the checks of checks.py,   *)
(* the Census wrapper of census.py and the orchestrator loop of audit.py.  *)
(*                                                                         *)
(* Python values are records [t, n, s]: t is the runtime type, n the       *)
(* number of an int or a (whole-valued) float, s the characters of a str.  *)
(* A Python str is a sequence of one-character strings.                    *)
(***************************************************************************)
EXTENDS Integers, Sequences, FiniteSets, TLC

\* ------------------------------------------------------------------ bounds
\* Longest shapefile (rows) a check instance is given.
MaxRows == 2

\* ------------------------------------------------------------- state
\* CountyTotalPopulationCheck.audit() on one instance
VARIABLES
  countyFIPS,        \* descriptors.countyFIPS: a column name, "" or None
  shapefile_gdf,     \* the rows of the shapefile
  errors,            \* self.errors
  pc,                \* "start", "loop", "returned", "raised"
  raised,            \* the exception audit() raised, "" when none
  county_aggregate,  \* self.county_aggregate, as items
  aggregated,        \* aggregate_attrs_by_county has run
  submitted,         \* the codes handed to get_population
  requests,          \* population requests made to the oracle
  oracleFailed,      \* the request raised
  figures,           \* the figure the oracle holds for each submitted code
  census_county_populations,
  idx,               \* counties the loop has finished
  county_fips,       \* the local of line 113, <<>> while unbound
  ret                \* audit()'s return value, -1 before it returns

countyVars ==
  <<countyFIPS, shapefile_gdf, errors, pc, raised, county_aggregate, aggregated,
    submitted, requests, oracleFailed, figures, census_county_populations, idx,
    county_fips, ret>>

\* TotalPopulationCheck.audit() on one instance
VARIABLES
  total_values,      \* shapefile.list_values(totalPopulation), in steps
  census_total,      \* self.census.get_population(), the whole-state total
  total_errors,      \* self.errors
  total_pc,          \* "start", "returned"
  total_ret          \* audit()'s return value, -1 before it returns

totalVars == <<total_values, census_total, total_errors, total_pc, total_ret>>

\* DataExistenceCheck.audit() on one instance
VARIABLES
  exist_values,      \* shapefile.list_values(column=fips_code)
  exist_errors,      \* self.errors
  exist_pc,          \* "start", "returned", "raised"
  exist_raised,      \* the exception audit() raised, "" when none
  exist_ret,         \* audit()'s return value once it returned
  exist_log          \* levels of the log records written

existVars ==
  <<exist_values, exist_errors, exist_pc, exist_raised, exist_ret, exist_log>>

\* a call of aggregate_attrs_by_county
VARIABLES
  agg_rows,          \* the rows argument
  agg_fips,          \* the fips argument
  agg_gdf,           \* the rows of the instance's shapefile
  agg_result,        \* the returned dict, as items
  agg_pc             \* "start", "done"

aggVars == <<agg_rows, agg_fips, agg_gdf, agg_result, agg_pc>>

\* file_fetch calls on one instance
VARIABLES
  scratch_dir,       \* self.scratch_dir
  fs0,               \* the files of the scratch directory before any call
  fs,                \* the files now: path -> content, NoFile when absent
  fetch_calls        \* the calls made, each with what it saw and did

fetchVars == <<scratch_dir, fs0, fs, fetch_calls>>

\* Auditor.run_audit
VARIABLES
  descriptors,       \* self.descriptors, each with the data it resolves to
  run_pos,           \* the descriptor the loop is at
  visited,           \* the descriptors the loop has entered, in order
  run_pc,            \* "running", "finished", "aborted"
  run_raised         \* the exception that left run_audit, "" when none

runVars == <<descriptors, run_pos, visited, run_pc, run_raised>>

vars == <<countyVars, totalVars, existVars, aggVars, fetchVars, runVars>>

countyOthers == <<totalVars, existVars, aggVars, fetchVars, runVars>>
totalOthers == <<countyVars, existVars, aggVars, fetchVars, runVars>>
existOthers == <<countyVars, totalVars, aggVars, fetchVars, runVars>>
aggOthers == <<countyVars, totalVars, existVars, fetchVars, runVars>>
fetchOthers == <<countyVars, totalVars, existVars, aggVars, runVars>>
runOthers == <<countyVars, totalVars, existVars, aggVars, fetchVars>>

\* ------------------------------------------------------- Python values
PyNone == [t |-> "none", n |-> 0, s |-> <<>>]
PyInt(k) == [t |-> "int", n |-> k, s |-> <<>>]
PyFloat(k) == [t |-> "float", n |-> k, s |-> <<>>]
PyStr(chars) == [t |-> "str", n |-> 0, s |-> chars]

IsNum(x) == x.t \in {"int", "float"}

\* bool(x): None, 0, 0.0 and "" are falsy.
Truthy(x) ==
  CASE x.t = "none" -> FALSE
    [] x.t \in {"int", "float"} -> x.n # 0
    [] x.t = "str" -> Len(x.s) > 0

\* x == y as dict keys compare: 1 == 1.0, "101" != 101.
PyEq(x, y) ==
  \/ IsNum(x) /\ IsNum(y) /\ x.n = y.n
  \/ x.t = "str" /\ y.t = "str" /\ x.s = y.s
  \/ x.t = "none" /\ y.t = "none"

Abs(k) == IF k < 0 THEN -k ELSE k

\* --------------------------------------------------------- Python strings
DigitChar == <<"0", "1", "2", "3", "4", "5", "6", "7", "8", "9">>

DigitVal(c) == (CHOOSE i \in 1..10 : DigitChar[i] = c) - 1

\* str(k) of a non-negative int.
RECURSIVE StrOfNat(_)
StrOfNat(k) ==
  IF k < 10 THEN <<DigitChar[k + 1]>>
  ELSE StrOfNat(k \div 10) \o <<DigitChar[(k % 10) + 1]>>

\* str(x) of a value: an int prints its digits, a whole float "<digits>.0".
PyStrOf(x) ==
  CASE x.t = "int" -> StrOfNat(x.n)
    [] x.t = "float" -> StrOfNat(x.n) \o <<".", "0">>
    [] x.t = "str" -> x.s
    [] x.t = "none" -> <<"N", "o", "n", "e">>

\* s.zfill(width): zeros on the left up to width, never a cut.
RECURSIVE zfill(_, _)
zfill(s, width) == IF Len(s) >= width THEN s ELSE zfill(<<"0">> \o s, width)

\* y.startswith("0")
StartsWithZero(y) == Len(y) > 0 /\ y[1] = "0"

\* int(y) of a string of digits.
RECURSIVE IntOfStr(_)
IntOfStr(y) ==
  IF Len(y) = 0 THEN 0
  ELSE 10 * IntOfStr(SubSeq(y, 1, Len(y) - 1)) + DigitVal(y[Len(y)])

\* ------------------------------------------------------- census.py
\* One cell of the response: int(y) if not y.startswith("0") else str(y).
ConvertCell(y) == IF ~StartsWithZero(y) THEN PyInt(IntOfStr(y)) ELSE PyStr(y)

\* The state column of every response row.
StateCode == <<"0", "1">>

\* The body the Census API answers for the counties asked: a row per county
\* code, echoing the code, with the figure the oracle holds for it.
Response(counties, held) ==
  [i \in 1..Len(counties) |->
     [P009001 |-> StrOfNat(held[counties[i]]),
      state |-> StateCode,
      county |-> counties[i]]]

\* fetch: every cell converted, the frame indexed by its county column.
fetch(response) ==
  [i \in 1..Len(response) |->
     [P009001 |-> ConvertCell(response[i].P009001),
      state |-> ConvertCell(response[i].state),
      county |-> ConvertCell(response[i].county)]]

\* get_population(counties): dict(result["P009001"]), index -> figure, as the
\* sequence of its (key, value) items.
get_population(response) ==
  LET result == fetch(response)
  IN  [i \in 1..Len(result) |-> <<result[i].county, result[i].P009001>>]

\* d[key] of a dict given as its items: the positions holding key.
DictPos(d, key) == {i \in 1..Len(d) : PyEq(d[i][1], key)}
DictHas(d, key) == DictPos(d, key) # {}
DictGet(d, key) == d[CHOOSE i \in DictPos(d, key) : TRUE][2]

\* ------------------------------------------- checks.py: aggregation
\* v + county[k] on an accumulated float.
PyAdd(v, w) ==
  IF IsNum(w) THEN PyFloat(v.n + w.n) ELSE [t |-> "TypeError", n |-> 0, s |-> <<>>]

\* One field of the merge, line 59.
MergeField(v, w) ==
  IF v.t = "float" THEN PyAdd(v, w) ELSE IF Truthy(v) THEN v ELSE w

MergeRow(acc, county) == [k \in DOMAIN acc |-> MergeField(acc[k], county[k])]

\* The loop of lines 54-63 over rows, the dict kept as its items in
\* insertion order.
RECURSIVE AggregateLoop(_, _, _)
AggregateLoop(agg, rows, fips) ==
  IF Len(rows) = 0 THEN agg
  ELSE
    LET county == Head(rows)
        key == county[fips]
        pos == DictPos(agg, key)
        next ==
          IF pos # {}
          THEN LET i == CHOOSE j \in pos : TRUE
               IN  [agg EXCEPT ![i] = <<agg[i][1], MergeRow(agg[i][2], county)>>]
          ELSE Append(agg, <<key, county>>)
    IN  AggregateLoop(next, Tail(rows), fips)

\* if not rows: the default (None) and an empty list both fall back.
RowsOrShapefile(rows, gdf) == IF Len(rows) = 0 THEN gdf ELSE rows

\* A descriptor's Optional[str] column name: None is written NoColumn; None
\* and "" are falsy.
NoColumn == "<None>"
ColumnSet(name) == name \notin {NoColumn, ""}

\* aggregate_attrs_by_county(rows, fips) of a check whose shapefile is gdf
\* and whose descriptor names the county-FIPS column fipsColumn; rows = <<>>
\* and fips = NoColumn are the defaults.
aggregate_attrs_by_county(rows, fips, gdf, fipsColumn) ==
  AggregateLoop(<<>>, RowsOrShapefile(rows, gdf),
                IF ~ColumnSet(fips) THEN fipsColumn ELSE fips)

\* county[fips] of line 56 finds the column in every row; a KeyError otherwise.
HasColumn(rows, fips) == \A i \in 1..Len(rows) : fips \in DOMAIN rows[i]

\* -------------------------- checks.py: CountyTotalPopulationCheck
\* The columns of the shapefile, as the descriptor names them; the county
\* column is COUNTYFP, and a descriptor naming GEOID names a column the
\* shapefile does not have.
totalPopulation == "TOTPOP"
countyLegalName == "NAME"

\* County keys the shapefile may hold, populations a row may hold and
\* figures the oracle may report.
CountyKeys == {PyInt(1), PyInt(42), PyInt(101)}
RowPopulations == {PyFloat(0), PyFloat(1), PyFloat(3)}
CensusFigures == {0, 1, 3}

CountyRows ==
  {[COUNTYFP |-> k, NAME |-> PyStr(<<"A">>), TOTPOP |-> p] :
     k \in CountyKeys, p \in RowPopulations}

RECURSIVE SeqsUpTo(_, _)
SeqsUpTo(S, n) ==
  IF n = 0 THEN {<<>>}
  ELSE LET shorter == SeqsUpTo(S, n - 1)
       IN  shorter \cup {Append(q, x) : q \in {r \in shorter : Len(r) = n - 1}, x \in S}

CountyInit ==
  /\ countyFIPS \in {"COUNTYFP", "GEOID", "", NoColumn}
  /\ shapefile_gdf \in (SeqsUpTo(CountyRows, MaxRows) \ {<<>>})
  /\ errors = 0
  /\ pc = "start"
  /\ raised = ""
  /\ county_aggregate = <<>>
  /\ aggregated = FALSE
  /\ submitted = <<>>
  /\ requests = 0
  /\ oracleFailed = FALSE
  /\ figures = <<>>
  /\ census_county_populations = <<>>
  /\ idx = 0
  /\ county_fips = <<>>
  /\ ret = -1

\* if self.descriptors.countyFIPS: and, as a mutant, the guard dropped.
CountyFIPSConfiguredAlways == TRUE
CountyFIPSConfigured == ColumnSet(countyFIPS)

\* Lines 90-98 with the column unset: straight to the return.
CountyAuditSkip ==
  /\ pc = "start"
  /\ ~CountyFIPSConfigured
  /\ pc' = "return"
  /\ UNCHANGED countyOthers
  /\ UNCHANGED <<countyFIPS, shapefile_gdf, errors, raised, county_aggregate,
                 aggregated, submitted, requests, oracleFailed, figures,
                 census_county_populations, idx, county_fips, ret>>

\* The codes of line 97.
CountyCodes(agg) == [i \in 1..Len(agg) |-> zfill(PyStrOf(agg[i][1]), 3)]

\* Line 94 on a shapefile without the configured column: county[fips]
\* raises KeyError in the first pass of the aggregation.
CountyAuditAggregateRaises ==
  /\ pc = "start"
  /\ CountyFIPSConfigured
  /\ ~HasColumn(shapefile_gdf, countyFIPS)
  /\ aggregated' = TRUE
  /\ raised' = "KeyError"
  /\ pc' = "raised"
  /\ UNCHANGED countyOthers
  /\ UNCHANGED <<countyFIPS, shapefile_gdf, errors, county_aggregate, submitted,
                 requests, oracleFailed, figures, census_county_populations, idx,
                 county_fips, ret>>

\* Lines 94-98, the request answered.
CountyAuditFetch ==
  /\ pc = "start"
  /\ CountyFIPSConfigured
  /\ HasColumn(shapefile_gdf, countyFIPS)
  /\ LET agg == aggregate_attrs_by_county(<<>>, NoColumn, shapefile_gdf, countyFIPS)
         codes == CountyCodes(agg)
         asked == {codes[i] : i \in 1..Len(codes)}
     IN  /\ county_aggregate' = agg
         /\ aggregated' = TRUE
         /\ submitted' = codes
         /\ requests' = requests + 1
         /\ \E f \in [asked -> CensusFigures] :
              /\ figures' = f
              /\ census_county_populations' = get_population(Response(codes, f))
  /\ pc' = "loop"
  /\ UNCHANGED countyOthers
  /\ UNCHANGED <<countyFIPS, shapefile_gdf, errors, raised, oracleFailed, idx,
                 county_fips, ret>>

\* Lines 94-98, the request failing (requests.get or json.loads raises):
\* nothing in audit() catches it.
CountyAuditFetchFails ==
  /\ pc = "start"
  /\ CountyFIPSConfigured
  /\ HasColumn(shapefile_gdf, countyFIPS)
  /\ LET agg == aggregate_attrs_by_county(<<>>, NoColumn, shapefile_gdf, countyFIPS)
     IN  /\ county_aggregate' = agg
         /\ aggregated' = TRUE
         /\ submitted' = CountyCodes(agg)
  /\ requests' = requests + 1
  /\ oracleFailed' = TRUE
  /\ raised' = "OracleError"
  /\ pc' = "raised"
  /\ UNCHANGED countyOthers
  /\ UNCHANGED <<countyFIPS, shapefile_gdf, errors, figures,
                 census_county_populations, idx, county_fips, ret>>

\* abs(a - b) <= 1 and, as a mutant, the same without abs.
WithinToleranceSigned(a, b) == a - b <= 1
WithinTolerance(a, b) == Abs(a - b) <= 1

\* One pass of the loop body, lines 99-127, as [errors, county_fips, raised].
CountyBody(each_county_fips, each_county, errs, fipsLocal, populations) ==
  LET population == each_county[totalPopulation]
      zero == IsNum(population) /\ population.n = 0
      errs1 == IF zero THEN errs + 1 ELSE errs
      code == zfill(PyStrOf(each_county_fips), 3)
  IN  IF zero /\ fipsLocal = <<>>
      THEN \* line 110 reads county_fips before line 113 binds it
           [errors |-> errs1, county_fips |-> fipsLocal, raised |-> "UnboundLocalError"]
      ELSE IF ~DictHas(populations, PyStr(code))
      THEN [errors |-> errs1, county_fips |-> code, raised |-> "KeyError"]
      ELSE IF ~IsNum(DictGet(populations, PyStr(code)))
      THEN [errors |-> errs1, county_fips |-> code, raised |-> "TypeError"]
      ELSE IF ~WithinTolerance(population.n, DictGet(populations, PyStr(code)).n)
      THEN [errors |-> errs1 + 1, county_fips |-> code, raised |-> ""]
      ELSE [errors |-> errs1, county_fips |-> code, raised |-> ""]

CountyAuditStep ==
  /\ pc = "loop"
  /\ idx < Len(county_aggregate)
  /\ LET item == county_aggregate[idx + 1]
         out == CountyBody(item[1], item[2], errors, county_fips,
                           census_county_populations)
     IN  /\ errors' = out.errors
         /\ county_fips' = out.county_fips
         /\ raised' = out.raised
         /\ pc' = IF out.raised = "" THEN "loop" ELSE "raised"
         /\ idx' = IF out.raised = "" THEN idx + 1 ELSE idx
  /\ UNCHANGED countyOthers
  /\ UNCHANGED <<countyFIPS, shapefile_gdf, county_aggregate, aggregated,
                 submitted, requests, oracleFailed, figures,
                 census_county_populations, ret>>

CountyAuditLoopEnd ==
  /\ pc = "loop"
  /\ idx = Len(county_aggregate)
  /\ pc' = "return"
  /\ UNCHANGED countyOthers
  /\ UNCHANGED <<countyFIPS, shapefile_gdf, errors, raised, county_aggregate,
                 aggregated, submitted, requests, oracleFailed, figures,
                 census_county_populations, idx, county_fips, ret>>

\* Line 129.
CountyAuditReturn ==
  /\ pc = "return"
  /\ ret' = errors
  /\ pc' = "returned"
  /\ UNCHANGED countyOthers
  /\ UNCHANGED <<countyFIPS, shapefile_gdf, errors, raised, county_aggregate,
                 aggregated, submitted, requests, oracleFailed, figures,
                 census_county_populations, idx, county_fips>>

\* ------------------------------- claims on CountyTotalPopulationCheck
CountyFinished == pc \in {"returned", "raised"}

\* The per-county request was made and answered.
OracleAnswered == requests > 0 /\ ~oracleFailed

AggregatedPopulation(i) == county_aggregate[i][2][totalPopulation]

ZeroCounty ==
  \E i \in 1..Len(county_aggregate) :
     IsNum(AggregatedPopulation(i)) /\ AggregatedPopulation(i).n = 0

AllCodesPresent ==
  \A i \in 1..Len(submitted) :
     DictHas(census_county_populations, PyStr(submitted[i]))

\* Counties whose aggregated population is more than 1 away from the figure
\* the oracle holds for their code.
Mismatches ==
  Cardinality({i \in 1..Len(county_aggregate) :
                 Abs(AggregatedPopulation(i).n - figures[submitted[i]]) > 1})

\* C2: with a county of population exactly 0 in the table and the oracle
\* answering, audit() does not raise and returns at least 1 error, wherever
\* that county stands in the iteration order.
C2_ZeroCountyCounted ==
  (OracleAnswered /\ ZeroCounty /\ CountyFinished)
    => (pc = "returned" /\ ret >= 1)

\* C3: every county code submitted to the oracle is a key of the mapping the
\* oracle call returns, so the lookup by that exact string succeeds.
C3_SubmittedCodesAreKeys == (pc = "loop") => AllCodesPresent

\* C4: when the per-county population request fails, audit() catches the
\* failure and returns 0 without raising.
C4_OracleFailureCaught ==
  (oracleFailed /\ CountyFinished) => (pc = "returned" /\ ret = 0)

\* C8: with no county-FIPS column configured (None or ""), audit() on a fresh
\* instance aggregates nothing, asks the oracle nothing, never raises and
\* returns 0.
C8_UnsetColumnNoOp ==
  ~ColumnSet(countyFIPS) =>
    /\ requests = 0
    /\ ~aggregated
    /\ county_aggregate = <<>>
    /\ pc \in {"start", "return", "returned"}
    /\ (pc = "returned" => ret = 0)

C8_Witness == ~ColumnSet(countyFIPS) /\ pc = "returned" /\ ret = 0

\* C10: with no aggregated county at 0 and every submitted code in the
\* oracle's mapping, audit() examines every county and returns the number of
\* counties more than 1 away from the oracle's figure.
C10_ReturnsMismatchCount ==
  (OracleAnswered /\ ~ZeroCounty /\ AllCodesPresent /\ CountyFinished)
    => (pc = "returned" /\ idx = Len(county_aggregate) /\ ret = Mismatches)

\* C10, where it holds: the same with every oracle figure at least 1, so that
\* fetch converts each figure to an int.
C10_HoldsForPositiveFigures ==
  (OracleAnswered /\ ~ZeroCounty /\ AllCodesPresent /\ CountyFinished
     /\ \A i \in 1..Len(submitted) : figures[submitted[i]] >= 1)
    => (pc = "returned" /\ idx = Len(county_aggregate) /\ ret = Mismatches)

\* ------------------------------- checks.py: TotalPopulationCheck
\* Column values are floats, counted in steps of 1/Resolution.
Resolution == 2
\* Largest value of one row, in steps, and largest whole-state total.
MaxValueSteps == 5
MaxCensusTotal == 4

RECURSIVE SumSeq(_)
SumSeq(q) == IF Len(q) = 0 THEN 0 ELSE Head(q) + SumSeq(Tail(q))

\* int(x) of a non-negative float given in steps: truncation.
IntOfSteps(steps) == steps \div Resolution

\* int(sum(self.shapefile.list_values(...)))
mggg_total_population(values) == IntOfSteps(SumSeq(values))

TotalInit ==
  /\ total_values \in SeqsUpTo(0..MaxValueSteps, MaxRows)
  /\ census_total \in 0..MaxCensusTotal
  /\ total_errors = 0
  /\ total_pc = "start"
  /\ total_ret = -1

TotalIdle ==
  /\ total_values = <<>>
  /\ census_total = 0
  /\ total_errors = 0
  /\ total_pc = "idle"
  /\ total_ret = -1

\* Lines 68-86.
TotalPopulationCheck_audit ==
  /\ total_pc = "start"
  /\ LET census_total_population == census_total
         mggg == mggg_total_population(total_values)
         errs == IF WithinTolerance(mggg, census_total_population)
                 THEN total_errors ELSE total_errors + 1
     IN  /\ total_errors' = errs
         /\ total_ret' = errs
  /\ total_pc' = "returned"
  /\ UNCHANGED totalOthers
  /\ UNCHANGED <<total_values, census_total>>

\* C1: audit() on a fresh instance returns 0 when the truncated column sum
\* and the oracle's total differ by at most 1 and exactly 1 when they differ
\* by 2 or more, in either direction.
C1_TotalTolerance ==
  (total_pc = "returned") =>
    LET m == SumSeq(total_values) \div Resolution
        d == m - census_total
    IN  /\ (d \in {-1, 0, 1} => total_ret = 0)
        /\ (d >= 2 \/ d <= -2 => total_ret = 1)

\* The census total 2 above the truncated column sum, and a column sum that
\* truncation brings within 1 of the census total.
C1_Witness ==
  /\ total_pc = "returned"
  /\ total_ret = 1
  /\ census_total - SumSeq(total_values) \div Resolution = 2

\* ------------------------------- checks.py: DataExistenceCheck
\* Longest column the existence check is given.
MaxColumn == 3

ColumnValues ==
  {PyNone, PyStr(<<>>), PyInt(0), PyStr(<<"0", "0", "1">>), PyInt(5)}

ExistInit ==
  /\ exist_values \in (SeqsUpTo(ColumnValues, MaxColumn) \ {<<>>})
  /\ exist_errors = 0
  /\ exist_pc = "start"
  /\ exist_raised = ""
  /\ exist_ret = PyNone
  /\ exist_log = <<>>

ExistIdle ==
  /\ exist_values = <<>>
  /\ exist_errors = 0
  /\ exist_pc = "idle"
  /\ exist_raised = ""
  /\ exist_ret = PyNone
  /\ exist_log = <<>>

\* all(values)
PyAll(values) == \A i \in 1..Len(values) : Truthy(values[i])

\* Lines 135-145, every value truthy: the method ends without a return
\* statement, so the call yields None.
DataExistenceCheck_audit_filled ==
  /\ exist_pc = "start"
  /\ PyAll(exist_values)
  /\ exist_ret' = PyNone
  /\ exist_pc' = "returned"
  /\ UNCHANGED existOthers
  /\ UNCHANGED <<exist_values, exist_errors, exist_raised, exist_log>>

\* Lines 135-145, a falsy value: the handler counts the error, then building
\* the message of line 144 reads the undefined name `value`, before
\* Logger.log_warning is called.
DataExistenceCheck_audit_missing ==
  /\ exist_pc = "start"
  /\ ~PyAll(exist_values)
  /\ exist_errors' = exist_errors + 1
  /\ exist_raised' = "NameError"
  /\ exist_pc' = "raised"
  /\ UNCHANGED existOthers
  /\ UNCHANGED <<exist_values, exist_ret, exist_log>>

ExistFinished == exist_pc \in {"returned", "raised"}

\* C5: audit() returns the error count as an integer without raising: 1, with
\* one warning-level log record, when a value of the column is falsy, and 0
\* when every value is truthy.
C5_ExistenceReturnsCount ==
  ExistFinished =>
    /\ exist_pc = "returned"
    /\ IF PyAll(exist_values)
       THEN exist_ret = PyInt(0)
       ELSE exist_ret = PyInt(1) /\ exist_log = <<"warning">>

\* --------------------- checks.py: aggregate_attrs_by_county, called
\* Longest list of rows handed to aggregate_attrs_by_county.
MaxAggRows == 3

\* Rows sharing the columns COUNTYFP, NAME and TOTPOP: a text key, a text
\* name that may be empty, an int or float population.
AggRowValues ==
  {[COUNTYFP |-> PyStr(k), NAME |-> PyStr(m), TOTPOP |-> p] :
     k \in {<<"0", "0", "1">>, <<"0", "0", "2">>},
     m \in {<<>>, <<"A">>, <<"B">>},
     p \in {PyInt(0), PyInt(2), PyFloat(1), PyFloat(2)}}

ShapefileRow ==
  [COUNTYFP |-> PyStr(<<"0", "0", "9">>), NAME |-> PyStr(<<"S">>), TOTPOP |-> PyFloat(7)]

AggInit ==
  /\ agg_rows \in SeqsUpTo(AggRowValues, MaxAggRows)
  /\ agg_fips \in {NoColumn, "COUNTYFP"}
  /\ agg_gdf \in {<<>>, <<ShapefileRow>>}
  /\ agg_result = <<>>
  /\ agg_pc = "start"

AggIdle ==
  /\ agg_rows = <<>>
  /\ agg_fips = NoColumn
  /\ agg_gdf = <<>>
  /\ agg_result = <<>>
  /\ agg_pc = "idle"

\* A call of aggregate_attrs_by_county(rows, fips) on a check whose descriptor
\* names the column COUNTYFP.
AggregateCall ==
  /\ agg_pc = "start"
  /\ agg_result' = aggregate_attrs_by_county(agg_rows, agg_fips, agg_gdf, "COUNTYFP")
  /\ agg_pc' = "done"
  /\ UNCHANGED aggOthers
  /\ UNCHANGED <<agg_rows, agg_fips, agg_gdf>>

\* The values of field k over the rows of `rows` whose key is `key`, in order.
RECURSIVE FieldOfKey(_, _, _)
FieldOfKey(rows, key, k) ==
  IF Len(rows) = 0 THEN <<>>
  ELSE (IF Head(rows).COUNTYFP = key THEN <<Head(rows)[k]>> ELSE <<>>)
         \o FieldOfKey(Tail(rows), key, k)

RECURSIVE SumOfValues(_)
SumOfValues(q) == IF Len(q) = 0 THEN 0 ELSE Head(q).n + SumOfValues(Tail(q))

HasTruthy(q) == \E i \in 1..Len(q) : Truthy(q[i])
FirstTruthy(q) ==
  q[CHOOSE i \in 1..Len(q) : Truthy(q[i]) /\ \A j \in 1..(i - 1) : ~Truthy(q[j])]

\* What the claim says of one merged field v, given the values it merges.
FieldAsClaimed(v, q) ==
  IF v.t = "float" THEN v.n = SumOfValues(q)
  ELSE IF HasTruthy(q) THEN v = FirstTruthy(q)
  ELSE \E i \in 1..Len(q) : v = q[i]

\* One merged row per distinct key of rows, every field as claimed.
AggregateAsClaimed(rows, result) ==
  /\ {result[i][1] : i \in 1..Len(result)} = {rows[i].COUNTYFP : i \in 1..Len(rows)}
  /\ Len(result) = Cardinality({rows[i].COUNTYFP : i \in 1..Len(rows)})
  /\ \A i \in 1..Len(result) :
       \A k \in DOMAIN result[i][2] :
          FieldAsClaimed(result[i][2][k], FieldOfKey(rows, result[i][1], k))

\* C7: given any sequence of rows sharing their columns, the result holds
\* exactly one merged row per distinct key of those rows, float-typed fields
\* summed and every other field at its first truthy value.
C7_AggregateOfRows ==
  (agg_pc = "done") => AggregateAsClaimed(agg_rows, agg_result)

\* C7, where it holds: the same for every non-empty sequence of rows.
C7_HoldsForNonEmptyRows ==
  (agg_pc = "done" /\ Len(agg_rows) > 0) => AggregateAsClaimed(agg_rows, agg_result)

\* ------------------------------------ checks.py: BaseCheck.file_fetch
\* Most file_fetch calls made on one check instance.
MaxCalls == 3

NoFile == "<absent>"
Urls == {"http://x/1", "http://x/2"}
Filenames == {"a.csv", "b.csv"}

\* file_path = self.scratch_dir+filename
FilePath(dir, filename) == dir \o filename

\* What requests.get(url).content holds.
Content(url) == "content of " \o url

\* os.path.isfile(file_path) and, as a mutant, a check that never finds it.
isfileNever(files, path) == FALSE
isfile(files, path) == path \in DOMAIN files /\ files[path] # NoFile

FetchInit ==
  /\ scratch_dir \in {"/tmp/s/", "/tmp/s"}
  /\ fs0 \in [{FilePath(scratch_dir, f) : f \in Filenames} -> {NoFile, "old"}]
  /\ fs = fs0
  /\ fetch_calls = <<>>

FetchIdle ==
  /\ scratch_dir = ""
  /\ fs0 = <<>>
  /\ fs = <<>>
  /\ fetch_calls = <<>>

\* Lines 27-40: download and write only when the file is not there.
file_fetch(url, filename) ==
  /\ Len(fetch_calls) < MaxCalls
  /\ LET file_path == FilePath(scratch_dir, filename)
         download == ~isfile(fs, file_path)
         after == IF download THEN [fs EXCEPT ![file_path] = Content(url)] ELSE fs
     IN  /\ fs' = after
         /\ fetch_calls' =
              Append(fetch_calls,
                     [url |-> url, filename |-> filename, path |-> file_path,
                      downloaded |-> download, before |-> fs[file_path],
                      after |-> after[file_path]])
  /\ UNCHANGED fetchOthers
  /\ UNCHANGED <<scratch_dir, fs0>>

FileFetchCall == \E url \in Urls, filename \in Filenames : file_fetch(url, filename)

\* The calls made for one file name, in order.
CallsFor(filename) == SelectSeq(fetch_calls, LAMBDA c : c.filename = filename)

\* C9: for a file the scratch directory did not hold, however many calls name
\* it, exactly one download is performed, by the first call; every call
\* returns the same path; a call finding the file leaves it unchanged.
C9_FetchIdempotent ==
  \A f \in Filenames :
    LET cs == CallsFor(f)
    IN  (fs0[FilePath(scratch_dir, f)] = NoFile /\ Len(cs) >= 1) =>
          /\ cs[1].downloaded
          /\ \A i \in 2..Len(cs) :
               /\ ~cs[i].downloaded
               /\ cs[i].after = cs[i].before
               /\ cs[i].after = cs[1].after
               /\ cs[i].path = cs[1].path
          /\ fs[FilePath(scratch_dir, f)] = cs[1].after

\* Two calls with the same URL and file name, the file absent at the start.
C9_Witness ==
  \E f \in Filenames :
    LET cs == CallsFor(f)
    IN  /\ fs0[FilePath(scratch_dir, f)] = NoFile
        /\ Len(cs) >= 2
        /\ cs[1].url = cs[2].url
        /\ cs[1].downloaded
        /\ ~cs[2].downloaded

\* ------------------------------------------ audit.py: Auditor.run_audit
\* Most dataset descriptors of one run.
MaxDescriptors == 2

\* One descriptor and what it resolves to: the configured county column,
\* the rows of the shapefile (COUNTYFP being the frame's index), the
\* oracle's whole-state total and its figure for each county code.
RunRows ==
  {[COUNTYFP |-> PyInt(k), NAME |-> PyStr(<<"A">>), TOTPOP |-> PyFloat(p)] :
     k \in {1, 2}, p \in {0, 3}}

RunCodes == {<<"0", "0", "1">>, <<"0", "0", "2">>}

Datasets ==
  {[county_fips_col |-> c, rows |-> r, census_total |-> 3, figures |-> f] :
     c \in {"COUNTYFP", NoColumn},
     r \in (SeqsUpTo(RunRows, MaxRows) \ {<<>>}),
     f \in [RunCodes -> {1, 3}]}

RunInit ==
  /\ descriptors \in (SeqsUpTo(Datasets, MaxDescriptors) \ {<<>>})
  /\ run_pos = 1
  /\ visited = <<>>
  /\ run_pc = "running"
  /\ run_raised = ""

RunIdle ==
  /\ descriptors = <<>>
  /\ run_pos = 0
  /\ visited = <<>>
  /\ run_pc = "idle"
  /\ run_raised = ""

\* Line 194: v + county[k] if isinstance(v, float) else v.
RunMergeField(v, w) == IF v.t = "float" THEN PyAdd(v, w) ELSE v

\* Lines 189-198: the aggregation written out in run_audit, keyed by the
\* frame's index.
RECURSIVE RunAggregate(_, _)
RunAggregate(agg, rows) ==
  IF Len(rows) = 0 THEN agg
  ELSE
    LET county == Head(rows)
        key == county.COUNTYFP
        pos == DictPos(agg, key)
        next ==
          IF pos # {}
          THEN LET i == CHOOSE j \in pos : TRUE
               IN  [agg EXCEPT ![i] =
                      <<agg[i][1],
                        [k \in DOMAIN agg[i][2] |-> RunMergeField(agg[i][2][k], county[k])]>>]
          ELSE Append(agg, <<key, county>>)
    IN  RunAggregate(next, Tail(rows))

\* Lines 204-223 for one county: the exception the pass raises, "" when
\* none. A failed zero-population assert is logged and passed; a failed
\* tolerance assert reaches line 222, whose message reads the undefined
\* name census_county_population.
RunCountyPass(each_county_fips, each_county, populations) ==
  LET code == zfill(PyStrOf(each_county_fips), 3)
  IN  IF ~DictHas(populations, PyStr(code)) THEN "KeyError"
      ELSE IF ~IsNum(DictGet(populations, PyStr(code))) THEN "TypeError"
      ELSE IF ~WithinTolerance(each_county[totalPopulation].n,
                               DictGet(populations, PyStr(code)).n)
      THEN "NameError"
      ELSE ""

\* Lines 203-223: the loop stops at the first pass that raises.
RECURSIVE RunCountyLoop(_, _)
RunCountyLoop(agg, populations) ==
  IF Len(agg) = 0 THEN ""
  ELSE LET r == RunCountyPass(Head(agg)[1], Head(agg)[2], populations)
       IN  IF r # "" THEN r ELSE RunCountyLoop(Tail(agg), populations)

\* Lines 139-223 for one descriptor with no interrupt: the exception that
\* leaves the try block, "" when none. The total-population assert of line
\* 176 is caught and logged whatever the totals.
RunDatasetBody(d) ==
  IF ~ColumnSet(d.county_fips_col) THEN ""
  ELSE LET agg == RunAggregate(<<>>, d.rows)
           codes == CountyCodes(agg)
       IN  RunCountyLoop(agg, get_population(Response(codes, d.figures)))

\* One pass of the for loop, the dataset audited to the end of the try block.
RunAuditDataset ==
  /\ run_pc = "running"
  /\ run_pos <= Len(descriptors)
  /\ RunDatasetBody(descriptors[run_pos]) = ""
  /\ visited' = Append(visited, run_pos)
  /\ run_pos' = run_pos + 1
  /\ UNCHANGED runOthers
  /\ UNCHANGED <<descriptors, run_pc, run_raised>>

\* One pass in which a KeyboardInterrupt arrives inside the try block before
\* anything else is raised: lines 225-229 log it and the loop goes on.
RunAuditInterrupted ==
  /\ run_pc = "running"
  /\ run_pos <= Len(descriptors)
  /\ visited' = Append(visited, run_pos)
  /\ run_pos' = run_pos + 1
  /\ UNCHANGED runOthers
  /\ UNCHANGED <<descriptors, run_pc, run_raised>>

\* One pass whose try block raises something other than KeyboardInterrupt:
\* no handler takes it and it leaves run_audit.
RunAuditRaises ==
  /\ run_pc = "running"
  /\ run_pos <= Len(descriptors)
  /\ RunDatasetBody(descriptors[run_pos]) # ""
  /\ visited' = Append(visited, run_pos)
  /\ run_raised' = RunDatasetBody(descriptors[run_pos])
  /\ run_pc' = "aborted"
  /\ UNCHANGED runOthers
  /\ UNCHANGED <<descriptors, run_pos>>

\* The for loop exhausted.
RunAuditEnd ==
  /\ run_pc = "running"
  /\ run_pos > Len(descriptors)
  /\ run_pc' = "finished"
  /\ UNCHANGED runOthers
  /\ UNCHANGED <<descriptors, run_pos, visited, run_raised>>

\* C6: the run visits every descriptor exactly once, in list order; neither a
\* data-quality violation nor a user interrupt met on one dataset keeps a
\* later one from being audited.
C6_EveryDescriptorVisited ==
  (run_pc \in {"finished", "aborted"}) =>
    visited = [i \in 1..Len(descriptors) |-> i]

\* ------------------------------------------------------ specifications
CountyIdle ==
  /\ countyFIPS = NoColumn
  /\ shapefile_gdf = <<>>
  /\ errors = 0
  /\ pc = "idle"
  /\ raised = ""
  /\ county_aggregate = <<>>
  /\ aggregated = FALSE
  /\ submitted = <<>>
  /\ requests = 0
  /\ oracleFailed = FALSE
  /\ figures = <<>>
  /\ census_county_populations = <<>>
  /\ idx = 0
  /\ county_fips = <<>>
  /\ ret = -1

\* The state after construction when `part` is what runs; everything else
\* stays idle.
InitOf(part) ==
  /\ IF part = "county" THEN CountyInit ELSE CountyIdle
  /\ IF part = "total" THEN TotalInit ELSE TotalIdle
  /\ IF part = "exist" THEN ExistInit ELSE ExistIdle
  /\ IF part = "agg" THEN AggInit ELSE AggIdle
  /\ IF part = "fetch" THEN FetchInit ELSE FetchIdle
  /\ IF part = "run" THEN RunInit ELSE RunIdle

\* CountyTotalPopulationCheck.audit() on a fresh instance.
CountyNext ==
  \/ CountyAuditSkip
  \/ CountyAuditAggregateRaises
  \/ CountyAuditFetch
  \/ CountyAuditFetchFails
  \/ CountyAuditStep
  \/ CountyAuditLoopEnd
  \/ CountyAuditReturn

SpecCounty == InitOf("county") /\ [][CountyNext]_vars

\* TotalPopulationCheck.audit() on a fresh instance.
TotalNext == TotalPopulationCheck_audit

SpecTotal == InitOf("total") /\ [][TotalNext]_vars

\* DataExistenceCheck.audit() on a fresh instance.
ExistNext ==
  \/ DataExistenceCheck_audit_filled
  \/ DataExistenceCheck_audit_missing

SpecExist == InitOf("exist") /\ [][ExistNext]_vars

\* One call of aggregate_attrs_by_county.
AggNext == AggregateCall

SpecAgg == InitOf("agg") /\ [][AggNext]_vars

\* file_fetch calls on one check instance.
FetchNext == FileFetchCall

SpecFetch == InitOf("fetch") /\ [][FetchNext]_vars

\* Auditor.run_audit over its descriptors.
RunNext ==
  \/ RunAuditDataset
  \/ RunAuditInterrupted
  \/ RunAuditRaises
  \/ RunAuditEnd

SpecRun == InitOf("run") /\ [][RunNext]_vars

====
